---- MODULE Spec2Model ----
(***************************************************************************)
(* Model of skills/scripts/validate_docs.py: the DocValidator rule set     *)
(* (links, code references, timestamp, required sections, TODO markers)    *)
(* and the aggregating loop of main() with its exit status.                *)
(*                                                                         *)
(* Paths are absolute, written as the sequence of their components below   *)
(* "/".  Strings the code inspects character by character (file names,     *)
(* document text scanned for headings) are sequences of one-character      *)
(* strings.  The modelled disk has no symbolic links.                      *)
(***************************************************************************)
EXTENDS Integers, Sequences, FiniteSets, TLC

\* ---------------------------------------------------------------- bounds
MaxDocs == 3
MaxLinks == 2
MaxStamps == 2
MaxLines == 3

\* ------------------------------------------------------- generic helpers
BSeq(S, n) == UNION {[1..k -> S] : k \in 0..n}

RECURSIVE SumSeq(_)
SumSeq(s) == IF s = <<>> THEN 0 ELSE Head(s) + SumSeq(Tail(s))

\* ------------------------------------------------------ character level
UpperToLower ==
  ("A" :> "a") @@ ("B" :> "b") @@ ("C" :> "c") @@ ("D" :> "d") @@ ("E" :> "e")
  @@ ("F" :> "f") @@ ("G" :> "g") @@ ("H" :> "h") @@ ("I" :> "i") @@ ("J" :> "j")
  @@ ("K" :> "k") @@ ("L" :> "l") @@ ("M" :> "m") @@ ("N" :> "n") @@ ("O" :> "o")
  @@ ("P" :> "p") @@ ("Q" :> "q") @@ ("R" :> "r") @@ ("S" :> "s") @@ ("T" :> "t")
  @@ ("U" :> "u") @@ ("V" :> "v") @@ ("W" :> "w") @@ ("X" :> "x") @@ ("Y" :> "y")
  @@ ("Z" :> "z")

\* str.lower()
Lower(s) == [k \in 1..Len(s) |-> IF s[k] \in DOMAIN UpperToLower THEN UpperToLower[s[k]] ELSE s[k]]

\* s[k:].startswith(p), k counted from 1
StartsWithAt(s, k, p) ==
  /\ k + Len(p) - 1 <= Len(s)
  /\ \A j \in 1..Len(p) : s[k + j - 1] = p[j]

\* s.startswith(p)
StartsWith(s, p) == StartsWithAt(s, 1, p)

\* p in s
Contains(s, p) == \E k \in 1..(Len(s) + 1) : StartsWithAt(s, k, p)

\* the characters of the file and directory names that occur on the modelled disk
Chars ==
  ("b.md" :> <<"b", ".", "m", "d">>)
  @@ ("RUNBOOK-db.md" :> <<"R", "U", "N", "B", "O", "O", "K", "-", "d", "b", ".", "m", "d">>)
  @@ ("runbook-api.md" :> <<"r", "u", "n", "b", "o", "o", "k", "-", "a", "p", "i", ".", "m", "d">>)
  @@ ("ADR-api.md" :> <<"A", "D", "R", "-", "a", "p", "i", ".", "m", "d">>)
  @@ ("adr-runbook.md" :> <<"a", "d", "r", "-", "r", "u", "n", "b", "o", "o", "k", ".", "m", "d">>)
  @@ ("API.md" :> <<"A", "P", "I", ".", "m", "d">>)
  @@ ("capital.md" :> <<"c", "a", "p", "i", "t", "a", "l", ".", "m", "d">>)
  @@ ("template-runbook.md" :> <<"t", "e", "m", "p", "l", "a", "t", "e", "-", "r", "u", "n", "b", "o", "o", "k", ".", "m", "d">>)
  @@ ("Template-ADR.md" :> <<"T", "e", "m", "p", "l", "a", "t", "e", "-", "A", "D", "R", ".", "m", "d">>)
  @@ ("notes.md" :> <<"n", "o", "t", "e", "s", ".", "m", "d">>)
  @@ ("gone.md" :> <<"g", "o", "n", "e", ".", "m", "d">>)
  @@ ("missing.md" :> <<"m", "i", "s", "s", "i", "n", "g", ".", "m", "d">>)
  @@ ("src" :> <<"s", "r", "c">>)
  @@ ("app" :> <<"a", "p", "p">>)
  @@ ("lib" :> <<"l", "i", "b">>)
  @@ ("main.ts" :> <<"m", "a", "i", "n", ".", "t", "s">>)
  @@ ("gone.ts" :> <<"g", "o", "n", "e", ".", "t", "s">>)
  @@ ("Example.ts" :> <<"E", "x", "a", "m", "p", "l", "e", ".", "t", "s">>)
  @@ ("your-app.ts" :> <<"y", "o", "u", "r", "-", "a", "p", "p", ".", "t", "s">>)

\* ------------------------------------------------------------ path level
\* project_root, already resolved (script_path.parent.parent.parent)
project_root == <<"proj">>

IsPrefix(p, q) == Len(p) <= Len(q) /\ SubSeq(q, 1, Len(p)) = p

\* PurePath.relative_to(root) raises ValueError unless root is a lexical prefix
InSubpath(p, root) == IsPrefix(root, p)

\* Path.parent
Parent(p) == IF p = <<>> THEN <<>> ELSE SubSeq(p, 1, Len(p) - 1)

RECURSIVE Collapse(_, _)
\* Path.resolve() on a disk without symbolic links: "." dropped, ".." pops
Collapse(done, rest) ==
  IF rest = <<>> THEN done
  ELSE IF Head(rest) = "." THEN Collapse(done, Tail(rest))
  ELSE IF Head(rest) = ".." THEN Collapse(Parent(done), Tail(rest))
  ELSE Collapse(Append(done, Head(rest)), Tail(rest))

Resolve(p) == Collapse(<<>>, p)

\* the files of the modelled disk that are not documents under validation
OtherFiles ==
  { <<"proj", "docs", "c.md">>,
    <<"proj", "src", "main.ts">>,
    <<"proj", "app", "lib", "main.ts">>,
    <<"etc", "hosts">> }

IsDir(files, p) == \E f \in files : IsPrefix(p, f) /\ p # f

RECURSIVE Walk(_, _, _)
\* os.stat(): the path is walked component by component, ".." is followed
\* through the directory it stands in, which therefore has to exist
Walk(files, cur, rest) ==
  IF rest = <<>> THEN cur \in files \/ IsDir(files, cur)
  ELSE /\ IsDir(files, cur)
       /\ IF Head(rest) = "." THEN Walk(files, cur, Tail(rest))
          ELSE IF Head(rest) = ".." THEN Walk(files, Parent(cur), Tail(rest))
          ELSE Walk(files, Append(cur, Head(rest)), Tail(rest))

\* Path.exists()
Exists(files, p) == Walk(files, <<>>, p)

\* ------------------------------------------------------------ date level
IsLeap(y) == y % 4 = 0 /\ (y % 100 # 0 \/ y % 400 = 0)

DaysInMonth(y, m) ==
  IF m = 2 THEN (IF IsLeap(y) THEN 29 ELSE 28)
  ELSE IF m \in {4, 6, 9, 11} THEN 30 ELSE 31

\* datetime.strptime(s, '%Y-%m-%d') of the ten characters yyyy-mm-dd accepts
\* exactly the real calendar dates of the years 1..9999
IsRealDate(d) ==
  /\ d[1] >= 1
  /\ d[2] \in 1..12
  /\ d[3] \in 1..DaysInMonth(d[1], d[2])

RECURSIVE DaysBeforeMonth(_, _)
DaysBeforeMonth(y, m) == IF m <= 1 THEN 0 ELSE DaysInMonth(y, m - 1) + DaysBeforeMonth(y, m - 1)

\* date.toordinal(): day 1 is 0001-01-01
Ordinal(d) ==
  LET y == d[1] - 1
  IN  y * 365 + (y \div 4) - (y \div 100) + (y \div 400) + DaysBeforeMonth(d[1], d[2]) + d[3]

SecondsPerDay == 86400

\* DaysOld with the day that has begun counted as a whole day
DaysOld_roundup(nw, d) ==
  Ordinal(nw.date) - Ordinal(d) + (IF nw.secs > 0 THEN 1 ELSE 0)

\* (now - last_updated).days: the difference is normalised to
\* 0 <= seconds < 86400 and .days is what is left; last_updated is midnight
DaysOld(nw, d) ==
  LET days == Ordinal(nw.date) - Ordinal(d)
      secs == nw.secs - 0
  IN  days + (secs \div SecondsPerDay)

StaleAfterDays == 180

\* ------------------------------------------------------------- documents
(* A document's content, as the checkers' patterns see it:                 *)
(*   links  - the (text, url) pairs re.findall returns for [text](url), in *)
(*            text order; a url is its leading prefix token ("http://",    *)
(*            "https://", "mailto:", "#", or one "/" per leading slash)    *)
(*            followed by its "/"-separated components;                    *)
(*   refs   - the backticked file references, in text order, each with the *)
(*            one pattern (1..3) of file_patterns that matches it;         *)
(*   stamps - the "...Updated...: yyyy-mm-dd" declarations, in text order, *)
(*            form 1 "**Last Updated**:", 2 "Last Updated:", 3 "Updated:"; *)
(*   text   - the characters scanned for headings;                         *)
(*   todos  - the (marker, description length) pairs of the TODO pattern.  *)
Finding(rule, text, n, date) == [rule |-> rule, text |-> text, n |-> n, date |-> date]

NoDate == <<0, 0, 0>>

\* ------------------------------------------------- _check_broken_links
ExternalPrefixes == {"http://", "https://", "mailto:", "#"}

\* link_url.startswith(('http://', 'https://', 'mailto:', '#'))
IsExternal(url) == url[1] \in ExternalPrefixes

RECURSIVE LStripSlash(_)
\* link_url.lstrip('/')
LStripSlash(url) == IF url # <<>> /\ Head(url) = "/" THEN LStripSlash(Tail(url)) ELSE url

\* base / rel: pathlib drops "." components when it joins, keeps ".."
PathJoin(base, rel) == base \o SelectSeq(rel, LAMBDA c : c # ".")

TargetPath(doc_path, url) ==
  IF url[1] = "/" THEN PathJoin(project_root, LStripSlash(url))
  ELSE Resolve(PathJoin(Parent(doc_path), url))

RECURSIVE LinkLoop(_, _, _, _)
\* the for loop over links; a broken link whose target is not below
\* project_root raises ValueError while the message is formatted
LinkLoop(files, doc_path, links, errs) ==
  IF links = <<>> THEN [errors |-> errs, raised |-> "none"]
  ELSE LET link == Head(links)
           target_path == TargetPath(doc_path, link.url)
       IN  IF IsExternal(link.url) THEN LinkLoop(files, doc_path, Tail(links), errs)
           ELSE IF Exists(files, target_path) THEN LinkLoop(files, doc_path, Tail(links), errs)
           ELSE IF ~InSubpath(target_path, project_root)
                THEN [errors |-> errs, raised |-> "ValueError: relative_to(target_path)"]
           ELSE LinkLoop(files, doc_path, Tail(links),
                         Append(errs, Finding("link", <<link.text>> \o link.url, 0, NoDate)))

check_broken_links(files, doc_path, content, errs) ==
  LinkLoop(files, doc_path, content.links, errs)

\* ------------------------------------------- _check_code_file_references
Placeholders ==
  { <<"e", "x", "a", "m", "p", "l", "e">>, <<"y", "o", "u", "r", "-">>,
    <<"x", "x", "x">>, <<".", ".", ".">> }

\* any(placeholder in file_ref.lower() ...); no placeholder holds a "/"
IsPlaceholder(file_ref) ==
  \E k \in 1..Len(file_ref), p \in Placeholders : Contains(Lower(Chars[file_ref[k]]), p)

RECURSIVE RefLoop(_, _, _)
RefLoop(files, refs, warns) ==
  IF refs = <<>> THEN warns
  ELSE LET file_ref == Head(refs).path
       IN  IF IsPlaceholder(file_ref) THEN RefLoop(files, Tail(refs), warns)
           ELSE IF ~Exists(files, PathJoin(project_root, file_ref))
                THEN RefLoop(files, Tail(refs), Append(warns, Finding("coderef", file_ref, 0, NoDate)))
           ELSE RefLoop(files, Tail(refs), warns)

\* the patterns are tried one after the other, each over the whole text
check_code_file_references(files, content, warns) ==
  LET OfShape(k) == SelectSeq(content.refs, LAMBDA r : r.shape = k)
  IN  RefLoop(files, OfShape(3), RefLoop(files, OfShape(2), RefLoop(files, OfShape(1), warns)))

\* --------------------------------------------------- _check_last_updated
\* pattern k of patterns against a declaration: "Updated:" also matches
\* inside "Last Updated:", and nothing else overlaps
PatternMatches(k, stamp) == stamp.form = k \/ (k = 3 /\ stamp.form = 2)

\* re.search(patterns[k], content): the first match in text order, or none
Search(k, stamps) == SelectSeq(stamps, LAMBDA s : PatternMatches(k, s))

template == <<"t", "e", "m", "p", "l", "a", "t", "e">>

check_last_updated(doc_path, content, nw, warns) ==
  LET name == Chars[doc_path[Len(doc_path)]]
      hits == {k \in 1..3 : Search(k, content.stamps) # <<>>}
  IN  IF hits # {}
      THEN LET k == CHOOSE h \in hits : \A g \in hits : h <= g
               date == Head(Search(k, content.stamps)).date
           IN  IF ~IsRealDate(date)
               THEN [warnings |-> warns, raised |-> "ValueError: strptime"]
               ELSE IF DaysOld(nw, date) > StaleAfterDays
               THEN [warnings |-> Append(warns, Finding("stale", <<>>, DaysOld(nw, date), date)),
                     raised |-> "none"]
               ELSE [warnings |-> warns, raised |-> "none"]
      ELSE IF ~Contains(Lower(name), template)
           THEN [warnings |-> Append(warns, Finding("nostamp", <<>>, 0, NoDate)), raised |-> "none"]
           ELSE [warnings |-> warns, raised |-> "none"]

\* ---------------------------------------------- _check_required_sections
SectionChars ==
  ("Overview" :> <<"O", "v", "e", "r", "v", "i", "e", "w">>)
  @@ ("Common Issues" :> <<"C", "o", "m", "m", "o", "n", " ", "I", "s", "s", "u", "e", "s">>)
  @@ ("Monitoring" :> <<"M", "o", "n", "i", "t", "o", "r", "i", "n", "g">>)
  @@ ("Context" :> <<"C", "o", "n", "t", "e", "x", "t">>)
  @@ ("Decision" :> <<"D", "e", "c", "i", "s", "i", "o", "n">>)
  @@ ("Consequences" :> <<"C", "o", "n", "s", "e", "q", "u", "e", "n", "c", "e", "s">>)
  @@ ("Endpoints" :> <<"E", "n", "d", "p", "o", "i", "n", "t", "s">>)
  @@ ("Error Handling" :> <<"E", "r", "r", "o", "r", " ", "H", "a", "n", "d", "l", "i", "n", "g">>)

\* the elif chain that picks required_sections from doc_path.name
required_sections(name) ==
  IF Contains(Lower(name), <<"r", "u", "n", "b", "o", "o", "k">>)
     \/ Contains(name, <<"R", "U", "N", "B", "O", "O", "K">>)
  THEN <<"Overview", "Common Issues", "Monitoring">>
  ELSE IF Contains(Lower(name), <<"a", "d", "r">>) \/ StartsWith(name, <<"A", "D", "R">>)
  THEN <<"Context", "Decision", "Consequences">>
  ELSE IF Contains(Lower(name), <<"a", "p", "i">>) \/ Contains(name, <<"A", "P", "I">>)
  THEN <<"Overview", "Endpoints", "Error Handling">>
  ELSE <<>>

\* the characters \s matches
Whitespace == {" ", "\t", "\n"}

RECURSIVE Run(_, _, _)
\* the length of the longest run of characters of set that starts at text[k]
Run(text, k, set) ==
  IF k <= Len(text) /\ text[k] \in set THEN 1 + Run(text, k + 1, set) ELSE 0

\* re.search(rf'^#+\s+{section}', content, re.MULTILINE | re.IGNORECASE)
HeadingSearch(text, section) ==
  \E k \in 1..Len(text) :
    /\ k = 1 \/ text[k - 1] = "\n"
    /\ \E h \in 1..Run(text, k, {"#"}) :
         \E w \in 1..Run(text, k + h, Whitespace) :
           StartsWithAt(Lower(text), k + h + w, Lower(SectionChars[section]))

check_required_sections(doc_path, content, errs) ==
  LET name == Chars[doc_path[Len(doc_path)]]
      missing == SelectSeq(required_sections(name), LAMBDA sec : ~HeadingSearch(content.text, sec))
  IN  IF Contains(Lower(name), template) THEN errs
      ELSE errs \o [k \in 1..Len(missing) |-> Finding("section", <<missing[k]>>, 0, NoDate)]

\* --------------------------------------------------- _check_todo_markers
TodoMarkers == {"TODO", "FIXME", "XXX", "HACK"}

TodoPrefixLen == 50

\* one warning per (marker, description) match, the description cut to 50
check_todo_markers(content, warns) ==
  warns \o [k \in 1..Len(content.todos) |->
              Finding("todo", <<content.todos[k].marker>>,
                      IF content.todos[k].len < TodoPrefixLen THEN content.todos[k].len ELSE TodoPrefixLen,
                      NoDate)]

\* ------------------------------------------------------------------ state
VARIABLES
  disk,            \* the documents on disk: path -> content (never written)
  now,             \* datetime.now(): [date, secs], held fixed during a run
  doc_files,       \* main: the list of paths to validate
  i,               \* main: number of loop iterations begun and returned from
  pc,              \* where the process is
  errors,          \* DocValidator.errors
  warnings,        \* DocValidator.warnings
  ran,             \* the checkers run so far by the current validate_file call
  total_errors,    \* main
  total_warnings,  \* main
  failed_files,    \* main
  results,         \* what each validate_file call returned, in call order
  raised,          \* the exception that ended the process, or "none"
  exit_status      \* the process exit status, -1 while it runs

vars == <<disk, now, doc_files, i, pc, errors, warnings, ran, total_errors,
          total_warnings, failed_files, results, raised, exit_status>>

\* every file there is: the documents and the other files
Files == DOMAIN disk \cup OtherFiles

\* the document the loop is at
doc_file == doc_files[i + 1]

\* an uncaught exception leaves main: traceback, exit status 1
Raise(exc) ==
  /\ raised' = exc
  /\ pc' = "crashed"
  /\ exit_status' = 1

\* the state main is in when its loop starts, for a set of (disk, doc_files) pairs
InitWith(runs, nows) ==
  /\ \E r \in runs : disk = r[1] /\ doc_files = r[2]
  /\ now \in nows
  /\ i = 0
  /\ pc = "loop"
  /\ errors = <<>>
  /\ warnings = <<>>
  /\ ran = {}
  /\ total_errors = 0
  /\ total_warnings = 0
  /\ failed_files = <<>>
  /\ results = <<>>
  /\ raised = "none"
  /\ exit_status = -1

\* ValidateFile without the reset of the validator's lists
ValidateFile_noreset ==
  /\ pc = "loop"
  /\ i < Len(doc_files)
  /\ IF ~InSubpath(doc_file, project_root)
     THEN /\ Raise("ValueError: relative_to(doc_path)")
          /\ ran' = {}
          /\ UNCHANGED <<errors, warnings>>
     ELSE /\ errors' = IF Exists(Files, doc_file) THEN errors
                       ELSE Append(errors, Finding("missing", doc_file, 0, NoDate))
          /\ warnings' = warnings
          /\ ran' = {}
          /\ pc' = IF Exists(Files, doc_file) THEN "links" ELSE "return"
          /\ UNCHANGED <<raised, exit_status>>
  /\ UNCHANGED <<disk, now, doc_files, i, total_errors, total_warnings, failed_files, results>>

\* main: the loop takes the next document; validate_file up to read_text.
\* The relative_to of line 43 comes before the lists are reset.  A path in
\* doc_files names a file or nothing, never a directory.
ValidateFile ==
  /\ pc = "loop"
  /\ i < Len(doc_files)
  /\ IF ~InSubpath(doc_file, project_root)
     THEN /\ Raise("ValueError: relative_to(doc_path)")
          /\ ran' = {}
          /\ UNCHANGED <<errors, warnings>>
     ELSE /\ errors' = IF Exists(Files, doc_file) THEN <<>>
                       ELSE <<Finding("missing", doc_file, 0, NoDate)>>
          /\ warnings' = <<>>
          /\ ran' = {}
          /\ pc' = IF Exists(Files, doc_file) THEN "links" ELSE "return"
          /\ UNCHANGED <<raised, exit_status>>
  /\ UNCHANGED <<disk, now, doc_files, i, total_errors, total_warnings, failed_files, results>>

CheckBrokenLinks ==
  /\ pc = "links"
  /\ LET r == check_broken_links(Files, doc_file, disk[doc_file], errors)
     IN  /\ errors' = r.errors
         /\ IF r.raised # "none" THEN Raise(r.raised)
            ELSE pc' = "code_refs" /\ UNCHANGED <<raised, exit_status>>
  /\ ran' = ran \cup {"links"}
  /\ UNCHANGED <<disk, now, doc_files, i, warnings, total_errors, total_warnings,
                 failed_files, results>>

\* CheckCodeFileReferences reporting to the error list
CheckCodeFileReferences_aserror ==
  /\ pc = "code_refs"
  /\ errors' = check_code_file_references(Files, disk[doc_file], errors)
  /\ ran' = ran \cup {"code_refs"}
  /\ pc' = "last_updated"
  /\ UNCHANGED <<disk, now, doc_files, i, warnings, total_errors, total_warnings,
                 failed_files, results, raised, exit_status>>

CheckCodeFileReferences ==
  /\ pc = "code_refs"
  /\ warnings' = check_code_file_references(Files, disk[doc_file], warnings)
  /\ ran' = ran \cup {"code_refs"}
  /\ pc' = "last_updated"
  /\ UNCHANGED <<disk, now, doc_files, i, errors, total_errors, total_warnings,
                 failed_files, results, raised, exit_status>>

CheckLastUpdated ==
  /\ pc = "last_updated"
  /\ LET r == check_last_updated(doc_file, disk[doc_file], now, warnings)
     IN  /\ warnings' = r.warnings
         /\ IF r.raised # "none" THEN Raise(r.raised)
            ELSE pc' = "sections" /\ UNCHANGED <<raised, exit_status>>
  /\ ran' = ran \cup {"last_updated"}
  /\ UNCHANGED <<disk, now, doc_files, i, errors, total_errors, total_warnings,
                 failed_files, results>>

CheckRequiredSections ==
  /\ pc = "sections"
  /\ errors' = check_required_sections(doc_file, disk[doc_file], errors)
  /\ ran' = ran \cup {"sections"}
  /\ pc' = "todos"
  /\ UNCHANGED <<disk, now, doc_files, i, warnings, total_errors, total_warnings,
                 failed_files, results, raised, exit_status>>

CheckTodoMarkers ==
  /\ pc = "todos"
  /\ warnings' = check_todo_markers(disk[doc_file], warnings)
  /\ ran' = ran \cup {"todos"}
  /\ pc' = "return"
  /\ UNCHANGED <<disk, now, doc_files, i, errors, total_errors, total_warnings,
                 failed_files, results, raised, exit_status>>

\* Return with total_errors counting the failing files
Return_countfiles ==
  /\ pc = "return"
  /\ results' = Append(results, [doc |-> doc_file, success |-> Len(errors) = 0,
                                 errors |-> errors, warnings |-> warnings, ran |-> ran])
  /\ total_errors' = total_errors + (IF Len(errors) = 0 THEN 0 ELSE 1)
  /\ total_warnings' = total_warnings + Len(warnings)
  /\ failed_files' = IF Len(errors) = 0 THEN failed_files ELSE Append(failed_files, doc_file)
  /\ i' = i + 1
  /\ pc' = "loop"
  /\ UNCHANGED <<disk, now, doc_files, errors, warnings, ran, raised, exit_status>>

\* validate_file returns (len(errors) == 0, errors, warnings); main tallies
Return ==
  /\ pc = "return"
  /\ results' = Append(results, [doc |-> doc_file, success |-> Len(errors) = 0,
                                 errors |-> errors, warnings |-> warnings, ran |-> ran])
  /\ total_errors' = total_errors + Len(errors)
  /\ total_warnings' = total_warnings + Len(warnings)
  /\ failed_files' = IF Len(errors) = 0 THEN failed_files ELSE Append(failed_files, doc_file)
  /\ i' = i + 1
  /\ pc' = "loop"
  /\ UNCHANGED <<disk, now, doc_files, errors, warnings, ran, raised, exit_status>>

\* the loop is over: the summary is printed
Summary ==
  /\ pc = "loop"
  /\ i = Len(doc_files)
  /\ pc' = "summary"
  /\ UNCHANGED <<disk, now, doc_files, i, errors, warnings, ran, total_errors,
                 total_warnings, failed_files, results, raised, exit_status>>

\* sys.exit(1 if failed_files else 0)
Exit ==
  /\ pc = "summary"
  /\ exit_status' = IF failed_files # <<>> THEN 1 ELSE 0
  /\ pc' = "exited"
  /\ UNCHANGED <<disk, now, doc_files, i, errors, warnings, ran, total_errors,
                 total_warnings, failed_files, results, raised>>

Next ==
  \/ ValidateFile
  \/ CheckBrokenLinks
  \/ CheckCodeFileReferences
  \/ CheckLastUpdated
  \/ CheckRequiredSections
  \/ CheckTodoMarkers
  \/ Return
  \/ Summary
  \/ Exit

\* ----------------------------------------------------- inputs of the runs
Doc(links, refs, stamps, text, todos) ==
  [links |-> links, refs |-> refs, stamps |-> stamps, text |-> text, todos |-> todos]

Link(url) == [text |-> "x", url |-> url]

Stamp(form, date) == [form |-> form, date |-> date]

RECURSIVE JoinLines(_)
\* "\n".join(lines)
JoinLines(lines) ==
  IF lines = <<>> THEN <<>>
  ELSE IF Len(lines) = 1 THEN Head(lines)
  ELSE Head(lines) \o <<"\n">> \o JoinLines(Tail(lines))

\* the current time of the runs: the first and the last second of 2026-11-05
Nows == {[date |-> <<2026, 11, 5>>, secs |-> s] : s \in {0, SecondsPerDay - 1}}

\* 2026-05-09 is 180 days before 2026-11-05, 2026-05-08 is 181 days before
Dates ==
  { <<2026, 5, 9>>, <<2026, 5, 8>>, <<2026, 11, 5>>, <<2026, 11, 6>>, <<2024, 2, 29>>,
    <<2025, 2, 29>>, <<2026, 13, 45>>, <<0, 5, 9>> }

Urls ==
  { <<"http://", "c.md">>, <<"https://", "gone.md">>, <<"mailto:", "gone.md">>, <<"#", "gone.md">>,
    <<"/", "docs", "c.md">>, <<"/", "/", "docs", "gone.md">>, <<"/", "nodir", "..", "docs", "c.md">>,
    <<"..", "c.md">>, <<"..", "gone.md">>, <<".", "b.md">>, <<"nodir", "..", "..", "c.md">>,
    <<"..", "..", "..", "etc", "hosts">>, <<"..", "..", "..", "zzz.md">> }

Refs ==
  { [shape |-> 1, path |-> <<"src", "main.ts">>], [shape |-> 1, path |-> <<"lib", "gone.ts">>],
    [shape |-> 2, path |-> <<"src", "gone.ts">>], [shape |-> 2, path |-> <<"src", "Example.ts">>],
    [shape |-> 3, path |-> <<"app", "lib", "main.ts">>], [shape |-> 3, path |-> <<"app", "your-app.ts">>] }

Lines ==
  { <<"#", " ", "O", "v", "e", "r", "v", "i", "e", "w">>,
    <<"#", " ", "C", "o", "m", "m", "o", "n", " ", "I", "s", "s", "u", "e", "s">>,
    <<"#", "#", " ", "m", "o", "n", "i", "t", "o", "r", "i", "n", "g">>,
    <<"#">>,
    <<"O", "v", "e", "r", "v", "i", "e", "w">>,
    <<"#", " ", "D", "e", "c", "i", "s", "i", "o", "n", "s">>,
    <<"#", " ", "E", "n", "d", "p", "o", "i", "n", "t", "s">>,
    <<"#", " ", "E", "r", "r", "o", "r", " ", "H", "a", "n", "d", "l", "i", "n", "g">> }

Texts == {JoinLines(ls) : ls \in BSeq(Lines, MaxLines)}

ApiText == JoinLines(<<<<"#", " ", "O", "v", "e", "r", "v", "i", "e", "w">>, <<"#", " ", "E", "n", "d", "p", "o", "i", "n", "t", "s">>, <<"#", " ", "E", "r", "r", "o", "r", " ", "H", "a", "n", "d", "l", "i", "n", "g">>>>)

FreshStamp == Stamp(2, <<2026, 5, 9>>)

DocB == <<"proj", "docs", "a", "b.md">>

\* a run of main over up to MaxDocs documents: two files on disk, a path
\* that is on no disk and a path outside the project root
MainDisks ==
  LET contents == {Doc(l, <<>>, s, t, <<>>) :
                     l \in {<<>>, <<Link(<<"..", "gone.md">>)>>, <<Link(<<"..", "..", "..", "zzz.md">>)>>},
                     s \in {<<FreshStamp>>, <<Stamp(1, <<2026, 13, 45>>)>>, <<>>},
                     t \in {<<>>, ApiText}}
  IN  [{DocB, <<"proj", "API.md">>} -> contents]

MainLists ==
  BSeq({DocB, <<"proj", "API.md">>, <<"proj", "docs", "gone.md">>, <<"tmp", "missing.md">>}, MaxDocs)

Init == InitWith(MainDisks \X MainLists, Nows)

Spec == Init /\ [][Next]_vars

\* one document whose links vary
LinkDisks ==
  {DocB :> Doc(ls, <<>>, <<FreshStamp>>, <<>>, <<>>) :
     ls \in {[k \in 1..Len(us) |-> Link(us[k])] : us \in BSeq(Urls, MaxLinks)}}

\* main with one path argument: the document on the disk
OneDoc(disks) == UNION {{<<d, <<p>>>> : p \in DOMAIN d} : d \in disks}

InitLinks == InitWith(OneDoc(LinkDisks), Nows)

SpecLinks == InitLinks /\ [][Next]_vars

\* one document whose timestamp declarations vary
StampDisks ==
  {d :> Doc(<<>>, <<>>, ss, <<>>, <<>>) :
     d \in {DocB, <<"proj", "docs", "template-runbook.md">>},
     ss \in BSeq({Stamp(f, dt) : f \in 1..3, dt \in Dates}, MaxStamps)}

InitStamps == InitWith(OneDoc(StampDisks), Nows)

SpecStamps == InitStamps /\ [][Next]_vars

\* one document whose name and headings vary
SectionNames ==
  { "RUNBOOK-db.md", "runbook-api.md", "adr-runbook.md", "ADR-api.md", "capital.md",
    "template-runbook.md", "notes.md" }

SectionDisks ==
  {<<"proj", "docs", n>> :> Doc(<<>>, <<>>, <<FreshStamp>>, t, <<>>) : n \in SectionNames, t \in Texts}

InitSections == InitWith(OneDoc(SectionDisks), Nows)

SpecSections == InitSections /\ [][Next]_vars

\* one document with something for every checker
RuleDisks ==
  {<<"proj", "docs", n>> :> Doc(l, r, s, t, td) :
     n \in {"b.md", "RUNBOOK-db.md", "template-runbook.md"},
     l \in {<<>>, <<Link(<<"..", "gone.md">>), Link(<<"..", "c.md">>)>>},
     r \in BSeq(Refs, 1),
     s \in {<<>>, <<FreshStamp>>, <<Stamp(3, <<2026, 5, 8>>)>>},
     t \in {<<>>, ApiText},
     td \in {<<>>, <<[marker |-> "TODO", len |-> 7], [marker |-> "XXX", len |-> 80]>>}}

InitRules == InitWith(OneDoc(RuleDisks), Nows)

SpecRules == InitRules /\ [][Next]_vars

\* ================================================================ claims
OfRule(findings, rules) == SelectSeq(findings, LAMBDA f : f.rule \in rules)

\* the process has ended, through sys.exit or through an uncaught exception
Ended == exit_status # -1

\* a validate_file call is under way, or an exception has ended it
InCall == pc \notin {"loop", "summary", "exited"}

\* the content of the document the loop is at
content == disk[doc_file]

\* ---- C1
\* what the run knows against its documents when it ends: an error in a
\* returned result, or, for the call an exception ended, a document that is
\* not on disk, an error already recorded, or the broken link that raised
RunHasError ==
  \/ \E k \in 1..Len(results) : results[k].errors # <<>>
  \/ /\ pc = "crashed"
     /\ \/ ~Exists(Files, doc_file)
        \/ raised = "ValueError: relative_to(target_path)"
        \/ raised # "ValueError: relative_to(doc_path)" /\ errors # <<>>

\* C1: when a run of main has ended, its exit status is 0 if and only if no
\* validated document has an error, and 1 otherwise, whatever the warnings.
C1_ExitStatusIffNoErrors ==
  Ended => /\ exit_status \in {0, 1}
           /\ exit_status = 0 <=> ~RunHasError

\* ---- C2
\* C2: no check result aborts the run: a run that has ended has called
\* validate_file on every document and has left through the summary.
C2_NoCheckAbortsRun ==
  Ended => pc = "exited" /\ i = Len(doc_files) /\ Len(results) = Len(doc_files)

\* ---- C3
\* C3: a validate_file call on a document that is not on disk returns failure
\* with exactly one error, no warning and no checker run, and the documents
\* after it are still validated.
C3_MissingDocFailsFast ==
  \A k \in 1..Len(doc_files) :
    ~Exists(Files, doc_files[k]) =>
      /\ ~(pc = "crashed" /\ i + 1 = k)
      /\ k <= i =>
           /\ results[k].success = FALSE
           /\ Len(results[k].errors) = 1
           /\ results[k].errors[1].rule = "missing"
           /\ results[k].warnings = <<>>
           /\ results[k].ran = {}
      /\ (k < Len(doc_files) /\ pc = "exited") => Len(results) > k

\* ---- C4
\* C4: _check_last_updated never raises, whatever the declared date is.
C4_TimestampNeverRaises == raised # "ValueError: strptime"

\* ---- C5
ErrorRules == {"missing", "link", "section"}

WarningRules == {"coderef", "stale", "nostamp", "todo"}

\* C5: severity is fixed per rule: the error list only ever holds findings of
\* the missing-document check, LinkChecker and SectionChecker, the warning
\* list only findings of CodeReferenceChecker, TimestampChecker and TodoScanner.
C5_SeverityFixedPerRule ==
  /\ \A k \in 1..Len(errors) : errors[k].rule \in ErrorRules
  /\ \A k \in 1..Len(warnings) : warnings[k].rule \in WarningRules
  /\ \A k \in 1..Len(results) :
       /\ \A j \in 1..Len(results[k].errors) : results[k].errors[j].rule \in ErrorRules
       /\ \A j \in 1..Len(results[k].warnings) : results[k].warnings[j].rule \in WarningRules

\* every rule has reported on one document
C5_Witness ==
  /\ pc = "return"
  /\ {errors[k].rule : k \in 1..Len(errors)} = {"link", "section"}
  /\ {"coderef", "todo"} \subseteq {warnings[k].rule : k \in 1..Len(warnings)}
  /\ \E k \in 1..Len(warnings) : warnings[k].rule \in {"stale", "nostamp"}

\* ---- C6
\* C6: two validations of the same unchanged document by one validator return
\* the same (success, errors, warnings), whatever was validated in between.
C6_Idempotent ==
  \A j \in 1..Len(results), k \in 1..Len(results) :
    results[j].doc = results[k].doc =>
      /\ results[j].success = results[k].success
      /\ results[j].errors = results[k].errors
      /\ results[j].warnings = results[k].warnings

\* a document with findings validated twice, another with other findings between
C6_Witness ==
  /\ Len(results) = 3
  /\ results[1].doc = results[3].doc
  /\ results[2].doc # results[1].doc
  /\ results[1].errors # <<>> /\ results[1].warnings # <<>>
  /\ results[2].errors # <<>> /\ results[2].errors # results[1].errors

\* ---- C7
\* the declaration _check_last_updated reads: first pattern first
Declared(c) ==
  LET k == CHOOSE h \in 1..3 : Search(h, c.stamps) # <<>> /\ \A g \in 1..(h - 1) : Search(g, c.stamps) = <<>>
  IN  Head(Search(k, c.stamps)).date

StaleWarned == \E k \in 1..Len(warnings) : warnings[k].rule = "stale"

\* the timestamp check has run on the current document and returned
TimestampChecked == "last_updated" \in ran /\ pc \in {"sections", "todos", "return"}

\* C7: a staleness warning is emitted if and only if the declared date is more
\* than 180 whole days before the current date: at 181 days yes, at 180 no.
C7_StaleIffOver180Days ==
  (TimestampChecked /\ content.stamps # <<>>) =>
    /\ StaleWarned <=> Ordinal(now.date) - Ordinal(Declared(content)) > 180
    /\ (now.date = <<2026, 11, 5>> /\ Declared(content) = <<2026, 5, 8>>) => StaleWarned
    /\ (now.date = <<2026, 11, 5>> /\ Declared(content) = <<2026, 5, 9>>) => ~StaleWarned

\* a document dated 181 days back is warned about, late in the day
C7_Witness ==
  /\ TimestampChecked
  /\ content.stamps # <<>>
  /\ Declared(content) = <<2026, 5, 8>>
  /\ now.secs > 0
  /\ \E k \in 1..Len(warnings) : warnings[k].rule = "stale" /\ warnings[k].n = 181

\* ---- C8
RECURSIVE SplitLines(_, _)
\* the lines of a text, split at "\n"; line is the line being collected
SplitLines(text, line) ==
  IF text = <<>> THEN <<line>>
  ELSE IF Head(text) = "\n" THEN <<line>> \o SplitLines(Tail(text), <<>>)
  ELSE SplitLines(Tail(text), Append(line, Head(text)))

\* a heading line whose text starts with the name: "#"s, blanks, the name
IsHeadingFor(line, section) ==
  \E h \in 1..Run(line, 1, {"#"}) :
    \E w \in 1..Run(line, 1 + h, {" ", "\t"}) :
      StartsWithAt(Lower(line), 1 + h + w, Lower(SectionChars[section]))

HasHeading(text, section) ==
  \E k \in 1..Len(SplitLines(text, <<>>)) : IsHeadingFor(SplitLines(text, <<>>)[k], section)

\* the profile of a file name: template > runbook > adr > api > none
ProfileSections(name) ==
  IF Contains(Lower(name), template) THEN <<>>
  ELSE IF Contains(Lower(name), <<"r", "u", "n", "b", "o", "o", "k">>)
  THEN <<"Overview", "Common Issues", "Monitoring">>
  ELSE IF Contains(Lower(name), <<"a", "d", "r">>)
  THEN <<"Context", "Decision", "Consequences">>
  ELSE IF Contains(Lower(name), <<"a", "p", "i">>)
  THEN <<"Overview", "Endpoints", "Error Handling">>
  ELSE <<>>

\* C8: SectionChecker emits exactly one error per required section of the
\* file name's profile (template > runbook > adr > api > none) that no
\* heading of the document starts with, and no other error.
C8_SectionErrors ==
  (InCall /\ "sections" \in ran) =>
    LET name == Chars[doc_file[Len(doc_file)]]
        absent == SelectSeq(ProfileSections(name), LAMBDA sec : ~HasHeading(content.text, sec))
        found == OfRule(errors, {"section"})
    IN  found = [k \in 1..Len(absent) |-> Finding("section", <<absent[k]>>, 0, NoDate)]

\* ---- C9
\* a link the claim has flagged: no exempt prefix, resolved path not on disk
IsBroken(link) == ~IsExternal(link.url) /\ ~Exists(Files, TargetPath(doc_file, link.url))

\* C9: LinkChecker emits exactly one error for every link occurrence whose
\* target has no exempt prefix and whose resolved path does not exist, and
\* none for any other link.
C9_LinkErrors ==
  (InCall /\ "links" \in ran) =>
    LET broken == SelectSeq(content.links, IsBroken)
    IN  OfRule(errors, {"link"}) =
          [k \in 1..Len(broken) |-> Finding("link", <<broken[k].text>> \o broken[k].url, 0, NoDate)]

\* ---- C10
\* C10: once main has processed its documents, files validated is the number
\* of documents, the failing-file count the number of results with an error,
\* and the totals the sums of the per-document error and warning counts.
C10_SummaryCounters ==
  pc \in {"summary", "exited"} =>
    /\ Len(results) = Len(doc_files)
    /\ \A k \in 1..Len(results) : results[k].doc = doc_files[k]
    /\ Len(failed_files) = Cardinality({k \in 1..Len(results) : results[k].errors # <<>>})
    /\ total_errors = SumSeq([k \in 1..Len(results) |-> Len(results[k].errors)])
    /\ total_warnings = SumSeq([k \in 1..Len(results) |-> Len(results[k].warnings)])

\* a finished run with a passing and a failing document, several errors and a warning
C10_Witness ==
  /\ pc = "exited"
  /\ Len(results) >= 2
  /\ Len(failed_files) >= 1
  /\ Len(failed_files) < Len(results)
  /\ total_errors > Len(failed_files)
  /\ total_warnings >= 1

====
